---- MODULE Spec2Model ----
(***************************************************************************)
(* Freshness-checked cache of the soccer analyst dashboard.                *)
(*                                                                         *)
(* The model follows src/app.py (the four fetch_and_store_* operations,    *)
(* is_data_valid, CacheMonitor), src/vector_db.py (SoccerAnalystVectorDB), *)
(* src/soccer_analyst.py (collect_and_process_data, analyze_match),        *)
(* src/football_data_api.py (the remote adapter) and                       *)
(* src/kafka_integration.py (the notifier).                                *)
(*                                                                         *)
(* Python values are modelled as tagged records:                           *)
(*   [k |-> "None"]                         None                           *)
(*   [k |-> "dict", d |-> r]                a dict with string keys; r is  *)
(*                                          the TLA+ record of its items   *)
(*   [k |-> "matches", keytype, ids]        the dict of get_valid_match_ids*)
(*                                          keyed by match id; keytype is  *)
(*                                          "int" or "str"                 *)
(*   [k |-> "str", s |-> n]                 a non-empty text               *)
(* Time is counted in whole seconds.                                       *)
(***************************************************************************)
EXTENDS Integers, FiniteSets, Sequences, TLC

VARIABLES
    now,        \* the wall clock, datetime.now(), in seconds
    ticks,      \* number of clock advances so far (bounded)
    db_kind,    \* which store adapter _soccer_analyst.db is
    store,      \* collection name -> set of stored documents
    monitor,    \* the CacheMonitor: hits, misses, api_calls
    calls,      \* number of fetch operations run so far (bounded)
    faults,     \* number of failures the environment injected so far (bounded)
    last,       \* what the most recent fetch operation did and returned
    pfArgs,     \* arguments of a pure function under test
    pfRet,      \* its result
    api,        \* the FootballDataAPI instance and the operation it runs
    callers,    \* callers running fetch_and_store_standings at the same time
    threads,    \* threads that record hits and misses in the shared CacheMonitor
    kafka,      \* the SoccerAnalystKafkaManager and what its client holds
    prev        \* the fetch call before the last one

vars == <<now, ticks, db_kind, store, monitor, calls, faults, last, pfArgs, pfRet,
          api, callers, threads, kafka, prev>>

cacheVars == <<now, ticks, db_kind, store, monitor, calls, faults, last, api,
               callers, threads, kafka, prev>>

nonApiVars == <<now, ticks, db_kind, store, monitor, calls, faults, last, pfArgs,
                pfRet, callers, threads, kafka, prev>>

-----------------------------------------------------------------------------
(* Bounds of the model *)

MaxTicks == 1
MaxCalls == 1
MaxFaults == 1
MaxAgeDays == 1
Max429 == 2
MaxOps == 4
MaxRepeat == 2
MaxDays == 12

-----------------------------------------------------------------------------
(* Configuration: app.py CACHE_CONFIG *)

CACHE_CONFIG ==
    [standings |-> [ttl |-> 300, version |-> "1.0"],
     matches   |-> [ttl |-> 300, version |-> "1.0"],
     analysis  |-> [ttl |-> 300, version |-> "1.0"],
     team_data |-> [ttl |-> 300, version |-> "1.0"]]

Categories == DOMAIN CACHE_CONFIG

-----------------------------------------------------------------------------
(* datetime: isoformat / fromisoformat / strftime('%Y%m%d') / timedelta *)

SecondsPerDay == 24 * 60 * 60

\* datetime.isoformat(): the date and the time of day, as text
isoformat(t) ==
    [ok |-> TRUE, date |-> t \div SecondsPerDay, time |-> t % SecondsPerDay]

\* a text that is not an ISO date
BadIso == [ok |-> FALSE, date |-> 0, time |-> 0]

\* datetime.fromisoformat(): raises ValueError on a text that is no date
fromisoformat_raises(s) == ~s.ok

fromisoformat(s) == s.date * SecondsPerDay + s.time

\* strftime('%Y%m%d') and strftime('%Y-%m-%d'): the date only
strftime(t) == t \div SecondsPerDay

\* datetime - datetime: a timedelta normalised to 0 <= seconds < one day
timedelta(a, b) ==
    [days |-> (a - b) \div SecondsPerDay, seconds |-> (a - b) % SecondsPerDay]

\* timedelta.seconds alone, which drops whole days
seconds_only(td) == td.seconds

total_seconds(td) == td.days * SecondsPerDay + td.seconds

-----------------------------------------------------------------------------
(* Python values *)

PyNone == [k |-> "None"]

PyDict(r) == [k |-> "dict", d |-> r]

PyStr(n) == [k |-> "str", s |-> n]

MatchDict(kt, S) == [k |-> "matches", keytype |-> kt, ids |-> S]

EmptyDict == [k |-> "dict", d |-> <<>>]

\* Python truthiness: None, {} and "" are falsy
truthy(v) ==
    CASE v.k = "None"    -> FALSE
      [] v.k = "dict"    -> DOMAIN v.d # {}
      [] v.k = "matches" -> v.ids # {}
      [] OTHER           -> TRUE

\* key in v
has(v, key) == v.k = "dict" /\ key \in DOMAIN v.d

-----------------------------------------------------------------------------
(* json.dumps / json.loads *)

\* The value a JSON text denotes: object keys are always strings.
Jsonify(v) ==
    CASE v.k = "matches" -> MatchDict("str", v.ids)
      [] v.k = "dict" /\ has(v, "data") /\ v.d.data.k = "matches" ->
             PyDict([v.d EXCEPT !.data = MatchDict("str", v.d.data.ids)])
      [] OTHER -> v

json_dumps(v) == [wf |-> TRUE, val |-> Jsonify(v)]

\* a text that is not JSON
BadJson == [wf |-> FALSE, val |-> PyNone]

json_loads_raises(text) == ~text.wf

json_loads(text) == text.val

-----------------------------------------------------------------------------
(* app.py is_data_valid *)

\* is_data_valid raises: ValueError from fromisoformat, KeyError from an
\* unknown data_type
is_data_valid_raises(data, data_type) ==
    /\ truthy(data) /\ has(data, "timestamp") /\ has(data, "version")
    /\ \/ fromisoformat_raises(data.d.timestamp)
       \/ data_type \notin DOMAIN CACHE_CONFIG

is_data_valid_seconds(data, data_type, t) ==
    IF ~truthy(data) \/ ~has(data, "timestamp") \/ ~has(data, "version")
    THEN FALSE
    ELSE LET timestamp == fromisoformat(data.d.timestamp)
             ttl == CACHE_CONFIG[data_type].ttl
             version == CACHE_CONFIG[data_type].version
         IN  /\ seconds_only(timedelta(t, timestamp)) < ttl
             /\ data.d.version = version

is_data_valid(data, data_type, t) ==
    IF ~truthy(data) \/ ~has(data, "timestamp") \/ ~has(data, "version")
    THEN FALSE
    ELSE LET timestamp == fromisoformat(data.d.timestamp)
             ttl == CACHE_CONFIG[data_type].ttl
             version == CACHE_CONFIG[data_type].version
         IN  /\ total_seconds(timedelta(t, timestamp)) < ttl
             /\ data.d.version = version

-----------------------------------------------------------------------------
(* app.py CacheMonitor: the three counters, as a record *)

CacheMonitor == [hits |-> 0, misses |-> 0, api_calls |-> 0]

record_hit(mon) == [mon EXCEPT !.hits = @ + 1]

record_miss(mon) == [mon EXCEPT !.misses = @ + 1]

\* a monitor whose record_api_call forgets to count
record_api_call_skipped(mon) == mon

record_api_call(mon) == [mon EXCEPT !.api_calls = @ + 1]

-----------------------------------------------------------------------------
(* vector_db.py SoccerAnalystVectorDB *)

collection_names ==
    {"manchester_united", "epl_teams", "match_reports", "tactical_analysis",
     "team_stats"}

\* the outcome of one call into an external service (the collection, the
\* broker): it completes or it raises
Outcomes == {"ok", "error"}

\* The environment injects at most MaxFaults failures over a behaviour: a
\* call that raises, a remote response that is None or empty.  b is the
\* number of failures still allowed; the choices below respect it.
PickOutcome(b) == IF b > 0 THEN Outcomes ELSE {"ok"}

outcome_cost(o) == IF o = "error" THEN 1 ELSE 0

PickFailAt(n, b) == IF b > 0 THEN 0..n ELSE {0}

fail_cost(fail_at) == IF fail_at = 0 THEN 0 ELSE 1

\* a stored document: its id and its metadata (the document text only
\* drives the similarity search, which is modelled as a free choice)
Doc(id, metadata) == [id |-> id, metadata |-> metadata]

\* a collection whose add replaces the document of an id that is present
collection_add_upsert(docs, doc, o) ==
    IF o = "error" THEN [docs |-> docs, raised |-> TRUE]
    ELSE [docs |-> {e \in docs : e.id # doc.id} \cup {doc}, raised |-> FALSE]

\* Collection.add of one document: an id that is already present is never
\* overwritten (the add is skipped, or it raises, which is outcome "error")
collection_add(docs, doc, o) ==
    IF o = "error" THEN [docs |-> docs, raised |-> TRUE]
    ELSE IF \E e \in docs : e.id = doc.id
         THEN [docs |-> docs, raised |-> FALSE]
         ELSE [docs |-> docs \cup {doc}, raised |-> FALSE]

\* add_documents(collection_name, documents=[text], metadatas=[m], ids=[id])
add_documents(st, collection_name, doc, o) ==
    IF collection_name \notin DOMAIN st
    THEN [store |-> st, raised |-> TRUE]
    ELSE LET r == collection_add(st[collection_name], doc, o)
         IN  [store |-> [st EXCEPT ![collection_name] = r.docs],
              raised |-> r.raised]

\* add_document(document, metadata): the id is doc_<count + 1>
add_document(st, collection_name, metadata, o) ==
    IF collection_name \notin DOMAIN st
    THEN [store |-> st, raised |-> TRUE]
    ELSE LET current_count == Cardinality(st[collection_name])
             r == collection_add(st[collection_name],
                                 Doc(<<"doc", current_count + 1, 0>>, metadata), o)
         IN  [store |-> [st EXCEPT ![collection_name] = r.docs],
              raised |-> r.raised]

\* query_collection raises ValueError, before its try block, when the
\* collection does not exist
query_collection_raises(st, collection_name) == collection_name \notin DOMAIN st

\* The results query_collection(collection_name, query_text, n_results=1)
\* can return.  SoccerAnalystVectorDB hands back the collection's own
\* result, a dict of lists keyed "ids", "distances", "metadatas",
\* "documents"; when the collection raises it returns that dict with empty
\* lists.  The nearest document is whichever the similarity search ranks
\* first, so any stored document can come back.  A "DocumentStore" is an
\* adapter that returns the list of documents app.py indexes
\* (db_results[0]['metadata']).
query_collection(kind, st, collection_name, b) ==
    LET shape == IF kind = "SoccerAnalystVectorDB" THEN "dict" ELSE "list"
    IN  {[shape |-> shape, docs |-> <<e>>] : e \in st[collection_name]}
        \cup (IF \/ st[collection_name] = {}
                 \/ kind = "SoccerAnalystVectorDB" /\ b > 0
              THEN {[shape |-> shape, docs |-> <<>>]} ELSE {})

\* the query raised inside SoccerAnalystVectorDB and the fallback came back
query_cost(q, st, collection_name) ==
    IF q.docs = <<>> /\ st[collection_name] # {} THEN 1 ELSE 0

-----------------------------------------------------------------------------
(* app.py: reading db_results *)

\* `if db_results and len(db_results) > 0`: a dict of four lists is truthy
\* and has length 4 whatever the lists hold
results_nonempty(q) == IF q.shape = "dict" THEN TRUE ELSE Len(q.docs) > 0

\* db_results[0]: KeyError on a dict keyed by strings
index0_raises(q) == q.shape = "dict"

\* db_results[0]['metadata'].get(field, '{}')
metadata_get(q, field) ==
    LET metadata == q.docs[1].metadata
    IN  IF field \in DOMAIN metadata THEN metadata[field]
        ELSE json_dumps(EmptyDict)

\* the try block of the probe raised before a value was obtained
probe_raises(q, field) ==
    \/ index0_raises(q)
    \/ json_loads_raises(metadata_get(q, field))
-----------------------------------------------------------------------------
(* The remote source: what the Football-Data adapter can hand back *)

\* one row of standings['standings'][0]['table']
TeamRow(id, name, position) ==
    PyDict([team |-> [id |-> id, name |-> name], position |-> position])

\* the league table as the API serves it now, and as it served it earlier
StandingsA == PyDict([standings |-> <<TeamRow(64, "Liverpool FC", 1)>>])

StandingsOld == PyDict([standings |-> <<TeamRow(64, "Liverpool FC", 2)>>])

\* get_standings(): _make_request returns the decoded body, or None on a
\* status other than 200; a body can also be an object without a table
StandingsResponses == {PyNone, EmptyDict, StandingsA}

\* get_recent_manchester_united_matches(): None, or a body whose "matches"
\* list is modelled by the ids of its matches
MatchesBody(ids) == [k |-> "dict", d |-> [matches |-> ids]]

RecentMatchesResponses == {PyNone, MatchesBody(<<1>>)}

\* get_valid_match_ids(): always a dict keyed by the integer match ids,
\* empty when nothing was found or the API refused
ValidMatchIdsResults == {MatchDict("int", {}), MatchDict("int", {1, 2})}

MatchIds == {1, 2}

\* analyze_match(match_id): None, or the analysis text of that match
AnalyzeMatchResults(match_id) == {PyNone, PyStr(match_id)}

\* a response that is None or empty counts as a failure of the remote source
PickResponse(S, b) == IF b > 0 THEN S ELSE {v \in S : truthy(v)}

response_cost(v) == IF truthy(v) THEN 0 ELSE 1

-----------------------------------------------------------------------------
(* football_data_api.py create_standings_dataframe / create_match_dataframe
   and get_big_six_comparison: `"error" in data` on None is a TypeError, a
   missing "standings" / "matches" key is a KeyError *)

create_standings_dataframe_raises(standings_data) ==
    \/ standings_data.k = "None"
    \/ ~has(standings_data, "error") /\ ~has(standings_data, "standings")

create_standings_dataframe(standings_data) ==
    IF has(standings_data, "error") THEN <<>> ELSE standings_data.d.standings

get_big_six_comparison_raises(standings) ==
    \/ standings.k = "None"
    \/ ~has(standings, "error") /\ ~has(standings, "standings")

create_match_dataframe_raises(matches_data) ==
    \/ matches_data.k = "None"
    \/ ~has(matches_data, "error") /\ ~has(matches_data, "matches")

create_match_dataframe(matches_data) ==
    IF has(matches_data, "error") THEN <<>> ELSE matches_data.d.matches

-----------------------------------------------------------------------------
(* soccer_analyst.py collect_and_process_data *)

RECURSIVE add_all(_, _, _, _)
\* the add_documents calls of a loop, in order, stopping at the first that
\* raises; docs is a sequence of <<collection, document>>, and the call
\* number fail_at raises (none when fail_at = 0)
add_all(st, docs, fail_at, i) ==
    IF i > Len(docs) THEN [store |-> st, raised |-> FALSE]
    ELSE LET r == add_documents(st, docs[i][1], docs[i][2],
                                IF i = fail_at THEN "error" ELSE "ok")
         IN  IF r.raised THEN r ELSE add_all(r.store, docs, fail_at, i + 1)

\* _process_standings: the standings text under standings_<date>, then one
\* team_standing_<id>_<date> per row
process_standings_docs(standings_df, t) ==
    <<  <<"epl_teams", Doc(<<"standings", 0, strftime(t)>>, [type |-> "standings"])>>  >>
    \o [i \in 1..Len(standings_df) |->
          <<"epl_teams",
            Doc(<<"team_standing", standings_df[i].d.team.id, strftime(t)>>,
                [type |-> "team_standing"])>>]

\* _process_matches: one match_<id> per row
process_matches_docs(matches_df) ==
    [i \in 1..Len(matches_df) |->
        <<"match_reports", Doc(<<"match", matches_df[i], 0>>, [type |-> "match"])>>]

\* _process_big_six_comparison: big_six_comparison_<date> in team_stats
process_big_six_docs(t) ==
    <<  <<"team_stats",
          Doc(<<"big_six_comparison", 0, strftime(t)>>, [type |-> "big_six_comparison"])>>  >>

\* _process_match_details for each match: get_match, then add_document of
\* the details; every exception inside is swallowed.  The match number
\* fail_at fails (none when fail_at = 0).
RECURSIVE process_match_details(_, _, _, _)
process_match_details(st, match_ids, fail_at, i) ==
    IF i > Len(match_ids) THEN st
    ELSE LET r == IF i = fail_at
                  THEN [store |-> st, raised |-> TRUE]
                  ELSE add_document(st, "match_reports", [type |-> "match_details"], "ok")
         IN  process_match_details(r.store, match_ids, fail_at, i + 1)

\* a run of collect_and_process_data that raised
CollectRaised(st, exc, get_standings, response, cost) ==
    [store |-> st, raised |-> TRUE, exc |-> exc, get_standings |-> get_standings,
     response |-> response, faults |-> cost]

\* lines 239-262, the writes, once the three responses were read
collect_store(st, t, standings, standings_df, matches_df, cost, b) ==
    LET docs1 == process_standings_docs(standings_df, t) \o process_matches_docs(matches_df)
        docs2 == process_big_six_docs(t)
    IN  UNION {
          LET a1 == add_all(st, docs1, fail1, 1)
              c1 == cost + fail_cost(fail1)
          IN  IF a1.raised
              THEN {CollectRaised(a1.store, "store", 2, standings, c1)}
              ELSE UNION {
                     LET st2 == process_match_details(a1.store, matches_df, faild, 1)
                         c2 == c1 + fail_cost(faild)
                     IN  {LET a2 == add_all(st2, docs2, fail2, 1)
                          IN  [store |-> a2.store, raised |-> a2.raised,
                               exc |-> IF a2.raised THEN "store" ELSE "none",
                               get_standings |-> 2, response |-> standings,
                               faults |-> c2 + fail_cost(fail2)]
                          : fail2 \in PickFailAt(Len(docs2), b - c2)}
                     : faild \in PickFailAt(Len(matches_df), b - c1)}
          : fail1 \in PickFailAt(Len(docs1), b - cost)}

\* The runs of collect_and_process_data from store st at time t: the store
\* it leaves, whether it raised, where the exception came from ("api": a
\* response it could not read; "store": an add_documents that raised), how
\* many times it called get_standings, the response it read last and how
\* many failures were injected.
collect_and_process_data(st, t, b) ==
    UNION {
      IF create_standings_dataframe_raises(standings)
      THEN {CollectRaised(st, "api", 1, standings, response_cost(standings))}
      ELSE UNION {
        IF get_big_six_comparison_raises(big_six_standings)
        THEN {CollectRaised(st, "api", 2, big_six_standings,
                            response_cost(big_six_standings))}
        ELSE UNION {
          IF create_match_dataframe_raises(recent_matches)
          THEN {CollectRaised(st, "api", 2, recent_matches,
                              response_cost(recent_matches))}
          ELSE collect_store(st, t, big_six_standings,
                             create_standings_dataframe(standings),
                             create_match_dataframe(recent_matches), 0, b)
          : recent_matches \in PickResponse(RecentMatchesResponses, b)}
        : big_six_standings \in PickResponse(StandingsResponses, b)}
      : standings \in PickResponse(StandingsResponses, b)}

-----------------------------------------------------------------------------
(* kafka_integration.py *)

\* value[key] = item on a dict
set_item(v, key, item) ==
    PyDict([x \in DOMAIN v.d \cup {key} |-> IF x = key THEN item ELSE v.d[x]])

\* TOPICS: the topic of each kind of update
TOPICS ==
    [matches        |-> "soccer_matches",
     standings      |-> "soccer_standings",
     team_stats     |-> "soccer_team_stats",
     match_analysis |-> "soccer_match_analysis"]

\* KafkaProducer.produce_message(topic, key, value): stamps the value it
\* was handed, then produces and flushes; an exception is logged and
\* re-raised
produce_message(value, t, o) ==
    [value |-> set_item(value, "timestamp", isoformat(t)), raised |-> o = "error"]

-----------------------------------------------------------------------------
(* app.py: the fetch operations.  Each is the set of runs the operation has
   from store st, monitor mon and time t, with at most b injected failures;
   a run records what was returned or raised and the store and monitor it
   leaves. *)

NoQuery == [shape |-> "none", docs |-> <<>>]

BaseRun(st, mon, q, cost) ==
    [outcome  |-> "return",  \* "return" or "raise"
     val      |-> PyNone,    \* the value returned
     source   |-> "none",    \* "store": read from the store; "remote": fetched
     store    |-> st,
     monitor  |-> mon,
     q        |-> q,         \* what query_collection returned
     fetched  |-> PyNone,    \* what the remote retrieval returned
     remote   |-> 0,         \* calls of the category's remote retrieval
     add      |-> "none",    \* outcome of the operation's own add_documents
     pub      |-> "none",    \* outcome of the publish
     exc      |-> "none",    \* origin of the exception raised to the caller
     trace    |-> <<"query">>, \* the external calls of the run, in order
     faults   |-> cost]      \* failures injected during the run

\* a miss-fill that announced the data before it tried to store it
publish_then_write(topic) == <<topic, "add">>

\* the tail of a miss-fill that notifies: add_documents, and once that went
\* through the publish to the topic
write_then_publish(topic) == <<"add", topic>>

\* get_kafka_manager() raised: KafkaProducer.__init__ logs and re-raises
KafkaInitRuns(st, mon, b) ==
    IF b > 0
    THEN {[BaseRun(st, mon, NoQuery, 1) EXCEPT !.outcome = "raise", !.exc = "kafka_init",
                                              !.trace = <<>>]}
    ELSE {}

\* {data, version, timestamp} as built by the miss path
versioned(data, data_type, t) ==
    PyDict([data |-> data, version |-> CACHE_CONFIG[data_type].version,
            timestamp |-> isoformat(t)])

\* lines 141-149 / 209-217: the value json.loads gave, when the try block
\* got that far
probe_data(q, field) ==
    IF results_nonempty(q) /\ ~probe_raises(q, field)
    THEN json_loads(metadata_get(q, field)) ELSE PyNone

\* the validity check of the probe, as app.py applies it
probe_valid(q, field, data_type, t) ==
    /\ results_nonempty(q) /\ ~probe_raises(q, field)
    /\ ~is_data_valid_raises(probe_data(q, field), data_type)
    /\ is_data_valid(probe_data(q, field), data_type, t)

\* record_hit() happens as soon as is_data_valid is True, before data['data']
monitor_after_probe(q, field, data_type, t, mon) ==
    IF probe_valid(q, field, data_type, t) THEN record_hit(mon) ELSE mon

\* lines 156-192, after collect_and_process_data left store st
standings_fill(st, mon, t, q, calls_so_far, cost, b) ==
    UNION {
      LET c1 == cost + response_cost(standings)
          run == [BaseRun(st, mon, q, c1) EXCEPT
                     !.fetched = standings, !.remote = calls_so_far + 1,
                     !.trace = <<"query", "collect", "remote">>]
      IN  IF truthy(standings) /\ has(standings, "standings")
          THEN LET versioned_data == versioned(standings, "standings", t)
                   doc == Doc(<<"standings", 0, strftime(t)>>,
                              [type |-> "standings",
                               standings_data |-> json_dumps(versioned_data)])
               IN  UNION {
                     LET a == add_documents(st, "epl_teams", doc, o)
                         c2 == c1 + outcome_cost(o)
                     IN  IF a.raised
                         THEN {[run EXCEPT !.add = "error", !.faults = c2,
                                           !.trace = @ \o <<"add">>]}
                         ELSE {IF produce_message(versioned_data, t, po).raised
                               THEN [run EXCEPT !.store = a.store, !.add = "ok",
                                                !.pub = "error",
                                                !.trace = @ \o write_then_publish(TOPICS.standings),
                                                !.faults = c2 + outcome_cost(po)]
                               ELSE [run EXCEPT !.store = a.store, !.add = "ok",
                                                !.pub = "ok", !.val = standings,
                                                !.trace = @ \o write_then_publish(TOPICS.standings),
                                                !.source = "remote", !.faults = c2]
                               : po \in PickOutcome(b - c2)}
                     : o \in PickOutcome(b - c1)}
          ELSE {run}
      : standings \in PickResponse(StandingsResponses, b - cost)}

\* lines 151-155: the miss path up to collect_and_process_data
standings_miss(st, mon, t, q, cost, b) ==
    LET mon1 == record_api_call(record_miss(mon))
    IN  UNION {
          IF c.raised
          THEN {[BaseRun(c.store, mon1, q, cost + c.faults) EXCEPT
                   !.outcome = "raise", !.exc = c.exc, !.remote = c.get_standings,
                   !.fetched = c.response, !.trace = <<"query", "collect">>]}
          ELSE standings_fill(c.store, mon1, t, q, c.get_standings,
                              cost + c.faults, b)
          : c \in collect_and_process_data(st, t, b - cost)}

\* lines 133-192, after get_kafka_manager()
standings_body(kind, st, mon, t, b) ==
    UNION {
      LET cost == query_cost(q, st, "epl_teams")
      IN  IF probe_valid(q, "standings_data", "standings", t)
             /\ has(probe_data(q, "standings_data"), "data")
          THEN {[BaseRun(st, record_hit(mon), q, cost) EXCEPT
                   !.val = probe_data(q, "standings_data").d.data, !.source = "store"]}
          ELSE standings_miss(st,
                  monitor_after_probe(q, "standings_data", "standings", t, mon),
                  t, q, cost, b)
      : q \in query_collection(kind, st, "epl_teams", b)}

fetch_and_store_standings(kind, st, mon, t, b) ==
    KafkaInitRuns(st, mon, b) \cup standings_body(kind, st, mon, t, b)

fetch_and_store_matches(kind, st, mon, t, b) ==
    UNION {
      LET cost == query_cost(q, st, "match_reports")
      IN
      IF probe_valid(q, "matches_data", "matches", t)
         /\ has(probe_data(q, "matches_data"), "data")
      THEN {[BaseRun(st, record_hit(mon), q, cost) EXCEPT
               !.val = probe_data(q, "matches_data").d.data, !.source = "store"]}
      ELSE
        LET mon1 == record_api_call(record_miss(
                       monitor_after_probe(q, "matches_data", "matches", t, mon)))
        IN  UNION {
              LET c1 == cost + response_cost(matches)
                  run == [BaseRun(st, mon1, q, c1) EXCEPT
                             !.fetched = matches, !.remote = 1,
                             !.trace = <<"query", "remote">>]
              IN  IF truthy(matches)
                  THEN LET versioned_data == versioned(matches, "matches", t)
                           doc == Doc(<<"matches", 0, strftime(t)>>,
                                      [type |-> "match_list",
                                       matches_data |-> json_dumps(versioned_data)])
                       IN  {LET a == add_documents(st, "match_reports", doc, o)
                            IN  IF a.raised
                                THEN [run EXCEPT !.add = "error",
                                                 !.trace = @ \o <<"add">>,
                                                 !.faults = c1 + outcome_cost(o)]
                                ELSE [run EXCEPT !.store = a.store, !.add = "ok",
                                                 !.trace = @ \o <<"add">>,
                                                 !.val = matches, !.source = "remote"]
                            : o \in PickOutcome(b - c1)}
                  ELSE {run}
              : matches \in PickResponse(ValidMatchIdsResults, b - cost)}
      : q \in query_collection(kind, st, "match_reports", b)}

fetch_and_store_match_analysis(kind, st, mon, t, match_id, b) ==
    UNION {
      LET cost == query_cost(q, st, "match_reports")
      IN
      IF results_nonempty(q) /\ ~probe_raises(q, "analysis_data")
      THEN {[BaseRun(st, mon, q, cost) EXCEPT
               !.val = probe_data(q, "analysis_data"), !.source = "store"]}
      ELSE
        UNION {
          LET c1 == cost + response_cost(analysis)
              run == [BaseRun(st, mon, q, c1) EXCEPT
                         !.fetched = analysis, !.remote = 1,
                         !.trace = <<"query", "remote">>]
          IN  IF truthy(analysis)
              THEN LET doc == Doc(<<"analysis", match_id, strftime(t)>>,
                                  [type |-> "match_analysis",
                                   analysis_data |-> json_dumps(analysis)])
                   IN  {LET a == add_documents(st, "match_reports", doc, o)
                        IN  IF a.raised
                            THEN [run EXCEPT !.add = "error",
                                             !.trace = @ \o <<"add">>,
                                             !.faults = c1 + outcome_cost(o)]
                            ELSE [run EXCEPT !.store = a.store, !.add = "ok",
                                             !.trace = @ \o <<"add">>,
                                             !.val = analysis, !.source = "remote"]
                        : o \in PickOutcome(b - c1)}
              ELSE {run}
          : analysis \in PickResponse(AnalyzeMatchResults(match_id), b - cost)}
      : q \in query_collection(kind, st, "match_reports", b)}

\* get_full_team_name: the short names of the team_mapping
TeamNames == {"Liverpool", "Everton"}

get_full_team_name(team_name) ==
    CASE team_name = "Liverpool" -> "Liverpool FC"
      [] team_name = "Everton"   -> "Everton FC"
      [] OTHER                   -> team_name

\* a in b, for the team names of the model: none is part of another
str_in(a, b) == a = b

\* lines 356-368: the row of the team, by exact name first, then by a name
\* that contains or is contained in the full name; 0 when there is none
find_team(table, full_team_name) ==
    LET exact == {i \in 1..Len(table) : table[i].d.team.name = full_team_name}
        partial == {i \in 1..Len(table) :
                       \/ str_in(full_team_name, table[i].d.team.name)
                       \/ str_in(table[i].d.team.name, full_team_name)}
        first(S) == CHOOSE i \in S : \A j \in S : i <= j
    IN  IF exact # {} THEN first(exact)
        ELSE IF partial # {} THEN first(partial) ELSE 0

\* lines 353-390, given the run s of the inner fetch_and_store_standings
team_data_fill(s, t, q, full_team_name, cost, b) ==
    LET standings == s.val
        c0 == cost + s.faults
        run == [BaseRun(s.store, s.monitor, q, c0) EXCEPT
                  !.fetched = s.fetched, !.remote = s.remote,
                  !.trace = <<"query">> \o s.trace]
    IN  IF s.outcome = "raise"
        THEN {[run EXCEPT !.outcome = "raise", !.exc = s.exc]}
        ELSE IF truthy(standings) /\ has(standings, "standings")
                /\ find_team(standings.d.standings, full_team_name) # 0
        THEN LET team_data ==
                     standings.d.standings[find_team(standings.d.standings, full_team_name)]
                 doc == Doc(<<"team", team_data.d.team.id, strftime(t)>>,
                            [type |-> "team_data",
                             team_data |-> json_dumps(team_data)])
             IN  UNION {
                   LET a == add_documents(s.store, "epl_teams", doc, o)
                       c1 == c0 + outcome_cost(o)
                   IN  IF a.raised
                       THEN {[run EXCEPT !.outcome = "raise", !.exc = "store",
                                         !.trace = @ \o <<"add">>,
                                         !.add = "error", !.faults = c1]}
                       ELSE {LET p == produce_message(team_data, t, po)
                             IN  IF p.raised
                                 THEN [run EXCEPT !.store = a.store, !.add = "ok",
                                                  !.pub = "error", !.outcome = "raise",
                                                  !.exc = "publish",
                                                  !.trace = @ \o write_then_publish(TOPICS.team_stats),
                                                  !.faults = c1 + outcome_cost(po)]
                                 ELSE [run EXCEPT !.store = a.store, !.add = "ok",
                                                  !.pub = "ok", !.val = p.value,
                                                  !.trace = @ \o write_then_publish(TOPICS.team_stats),
                                                  !.source = "remote"]
                             : po \in PickOutcome(b - c1)}
                   : o \in PickOutcome(b - c0)}
        ELSE {run}

fetch_and_store_team_data(kind, st, mon, t, team_name, b) ==
    LET full_team_name == get_full_team_name(team_name)
    IN  KafkaInitRuns(st, mon, b)
        \cup UNION {
          IF results_nonempty(q) /\ ~probe_raises(q, "team_data")
          THEN {[BaseRun(st, mon, q, query_cost(q, st, "epl_teams")) EXCEPT
                   !.val = probe_data(q, "team_data"), !.source = "store"]}
          ELSE UNION {team_data_fill(s, t, q, full_team_name,
                                     query_cost(q, st, "epl_teams"), b)
                      : s \in standings_body(kind, st, mon, t,
                                             b - query_cost(q, st, "epl_teams"))}
          : q \in query_collection(kind, st, "epl_teams", b)}

-----------------------------------------------------------------------------
(* football_data_api.py FootballDataAPI: the adapter and its clock *)

\* self.min_request_interval, in seconds
min_request_interval == 6

\* FootballDataAPI.__init__, and no operation running.  clock is
\* time.time(); prev_sent and last_sent are the times of the two most recent
\* outbound requests (-1: none yet); attempts lists the requests of the
\* operation in progress.  match_id is the argument of the operation: an
\* int or a str.  current_date, end_target, dates and valid_matches are the
\* variables of the loop of get_valid_match_ids.
FootballDataAPI ==
    [last_request_time |-> 0,
     clock     |-> 1000,
     pc        |-> "idle",
     op        |-> "none",
     endpoint  |-> "none",
     params    |-> "none",
     chunk     |-> 0,
     chunks    |-> 0,
     match_id  |-> [k |-> "int", v |-> 0],
     current_date  |-> 0,
     end_target    |-> 0,
     dates         |-> [dateFrom |-> 0, dateTo |-> 0],
     valid_matches |-> {},
     attempts  |-> <<>>,
     result    |-> "none",
     returned  |-> {},       \* the keys of the dict get_valid_match_ids returned
     prev_sent |-> -1,
     last_sent |-> -1,
     ops       |-> 0,
     waits     |-> 0,
     n429      |-> 0,
     nexc      |-> 0]

\* what one requests.get can end in: a response with a status code, or a
\* RequestException; the server answers 429 at most Max429 times and the
\* connection breaks at most MaxFaults times over a behaviour
Responses(a) ==
    {"200", "403", "500"}
    \cup (IF a.n429 < Max429 THEN {"429"} ELSE {})
    \cup (IF a.nexc < MaxFaults THEN {"exception"} ELSE {})

\* seconds a request takes
Durations == {1}

\* requests.get(url, headers, params) issued at time at and over at time
\* done: the adapter after it, with the request on record
requests_get(a, at, status, done) ==
    [a EXCEPT !.prev_sent = a.last_sent,
              !.last_sent = at,
              !.clock = done,
              !.attempts = Append(@, [endpoint |-> a.endpoint, params |-> a.params,
                                      dates |-> a.dates,
                                      at |-> at, status |-> status, done |-> done]),
              !.n429 = IF status = "429" THEN @ + 1 ELSE @,
              !.nexc = IF status = "exception" THEN @ + 1 ELSE @]

\* a retry that forgets the query parameters
retry_request_bare(endpoint, params) == [endpoint |-> endpoint, params |-> "none"]

\* line 45: the arguments of the recursive call
retry_request(endpoint, params) == [endpoint |-> endpoint, params |-> params]

\* a retry with a ceiling: the second 429 in a row is given up on
after_429_ceiling(attempts) == IF attempts >= 2 THEN "give_up" ELSE "retry"

\* lines 42-45: what follows a 429, whatever the number of attempts so far
after_429(attempts) == "retry"

\* _make_request(endpoint, params) from its first line to its return or to
\* the start of its recursive call: the rate limiter, one request that takes
\* dur seconds and ends in status
make_request(a, dur, status) ==
    LET current_time == a.clock
        time_since_last_request == current_time - a.last_request_time
        at == IF time_since_last_request < min_request_interval
              THEN current_time + (min_request_interval - time_since_last_request)
              ELSE current_time
        done == at + dur
        b == requests_get(a, at, status, done)
        r == retry_request(a.endpoint, a.params)
    IN  CASE status = "exception" -> [b EXCEPT !.pc = "idle", !.result = "raise"]
          [] status = "200" ->
                 [b EXCEPT !.last_request_time = done, !.pc = "idle", !.result = "body"]
          [] status = "429" /\ after_429(Len(b.attempts)) = "retry" ->
                 [b EXCEPT !.last_request_time = done,
                           !.clock = done + min_request_interval,
                           !.endpoint = r.endpoint, !.params = r.params]
          [] OTHER ->
                 [b EXCEPT !.last_request_time = done, !.pc = "idle", !.result = "None"]

\* isinstance(match_id, int)
isinstance_int(match_id) == match_id.k = "int"

\* get_match_data(match_id): a match_id that is no int returns None at
\* once; otherwise requests.get directly; 429 sleeps and calls itself
\* again; a RequestException is caught
get_match_data(a, dur, status) ==
    LET at == a.clock
        done == at + dur
        b == requests_get(a, at, status, done)
    IN  CASE ~isinstance_int(a.match_id) -> [a EXCEPT !.pc = "idle", !.result = "None"]
          [] status = "200" -> [b EXCEPT !.pc = "idle", !.result = "body"]
          [] status = "429" -> [b EXCEPT !.clock = done + min_request_interval]
          [] OTHER -> [b EXCEPT !.pc = "idle", !.result = "None"]

\* timedelta(days=n), in seconds
timedelta_days(n) == n * SecondsPerDay

\* min of two datetimes
py_min(a, b) == IF b < a THEN b ELSE a

\* a chunk that ends ten days after its start
chunk_end_ten_days_on(current_date, end_target) ==
    py_min(current_date + timedelta_days(10), end_target)

\* line 170: the end of the chunk that starts at current_date
chunk_end_of(current_date, end_target) ==
    py_min(current_date + timedelta_days(9), end_target)

\* line 215: the start of the chunk after the one that ends at chunk_end
next_chunk_start(chunk_end) == chunk_end + timedelta_days(1)

\* lines 173-175: the dates a chunk asks for (strftime gives the day)
chunk_params(current_date, chunk_end) ==
    [dateFrom |-> strftime(current_date), dateTo |-> strftime(chunk_end)]

\* lines 165-218 when no chunk is answered 403 or 429: the chunks of the
\* while loop from current_date on, in order
RECURSIVE date_chunks(_, _)
date_chunks(current_date, end_target) ==
    IF current_date <= end_target
    THEN LET chunk_end == chunk_end_of(current_date, end_target)
         IN  <<chunk_params(current_date, chunk_end)>>
               \o date_chunks(next_chunk_start(chunk_end), end_target)
    ELSE <<>>

\* the number of chunks of at most 10 days between now - days_back and
\* now + days_forward
chunk_count(days_back, days_forward) == ((days_back + days_forward) \div 10) + 1

\* what the server holds: a match on every fifth day; the id of a match
\* tells its day
match_on(day) == day % 5 = 0

match_id_on(day) == 100 + day

\* lines 186-198: the ids of the matches a 200 answer lists for a chunk
response_match_ids(dates) ==
    {match_id_on(d) : d \in {x \in dates.dateFrom..dates.dateTo : match_on(x)}}

\* a loop whose 429 branch falls through to the next chunk
chunk_after_fall_through(status, current_date, chunk_end) ==
    next_chunk_start(chunk_end)

\* lines 202-205 and 215: where the loop goes on after an answer: a 429
\* repeats the chunk, anything else moves to the day after its end
chunk_after(status, current_date, chunk_end) ==
    IF status = "429" THEN current_date ELSE next_chunk_start(chunk_end)

\* lines 165-178: the loop variables when the call starts at time t
start_valid_match_ids(a, t, days_back, days_forward) ==
    LET current_date == t - timedelta_days(days_back)
        end_target == t + timedelta_days(days_forward)
    IN  [a EXCEPT !.current_date = current_date,
                  !.end_target = end_target,
                  !.dates = chunk_params(current_date,
                                         chunk_end_of(current_date, end_target)),
                  !.valid_matches = {},
                  !.returned = {}]

\* `match_id not in valid_matches` with a lookup that finds every id
match_id_in_any(match_id, valid_matches) == TRUE

\* line 229: `match_id in valid_matches`; the keys are ints
match_id_in(match_id, valid_matches) ==
    isinstance_int(match_id) /\ match_id.v \in valid_matches

\* lines 220-223, and for get_detailed_match_analysis lines 229-236: the
\* dict is returned; the analysis gives up on an id that is not a key of it
\* and otherwise goes on to get_match
return_valid_matches(a, valid_matches) ==
    LET b == [a EXCEPT !.returned = valid_matches]
    IN  IF a.op = "get_detailed_match_analysis"
        THEN IF match_id_in(a.match_id, valid_matches)
             THEN [b EXCEPT !.pc = "make_request", !.endpoint = "matches/id",
                            !.params = "none"]
             ELSE [b EXCEPT !.pc = "idle", !.result = "None"]
        ELSE [b EXCEPT !.pc = "idle",
                       !.result = IF valid_matches = {} THEN "empty" ELSE "dict"]

\* get_valid_match_ids: one pass of the while loop; requests.get directly,
\* 403 returns {}, 429 sleeps and repeats the chunk, anything else moves to
\* the next chunk after one second
get_valid_match_ids(a, dur, status) ==
    LET at == a.clock
        done == at + dur
        chunk_end == chunk_end_of(a.current_date, a.end_target)
        current_date == chunk_after(status, a.current_date, chunk_end)
        valid_matches == IF status = "200"
                         THEN a.valid_matches \cup response_match_ids(a.dates)
                         ELSE a.valid_matches
        b == [requests_get(a, at, status, done) EXCEPT
                !.current_date = current_date,
                !.dates = chunk_params(current_date,
                                       chunk_end_of(current_date, a.end_target)),
                !.valid_matches = valid_matches]
    IN  CASE status = "403" -> return_valid_matches([b EXCEPT !.current_date = a.current_date,
                                                              !.dates = a.dates], {})
          [] status = "429" -> [b EXCEPT !.clock = done + min_request_interval]
          [] OTHER ->
                 IF current_date <= a.end_target
                 THEN [b EXCEPT !.chunk = @ + 1, !.clock = done + 1]
                 ELSE return_valid_matches([b EXCEPT !.chunk = @ + 1, !.clock = done + 1],
                                           valid_matches)

-----------------------------------------------------------------------------
(* Callers of fetch_and_store_standings that run at the same time *)

Callers == {1, 2}

\* a caller before its first step
NewCaller ==
    [pc         |-> "start",
     usable     |-> FALSE,   \* its probe read a valid envelope it could return
     missed     |-> FALSE,   \* it took the miss path
     overlapped |-> FALSE,   \* another caller was under way when it probed
     remote     |-> 0,       \* its calls of get_standings
     fetched    |-> PyNone,
     add        |-> "none",  \* outcome of its own add_documents
     val        |-> PyNone]

NoCallers == [p \in Callers |-> NewCaller]

\* a probe that gives way to a caller already under way
miss_decision_single_flight(usable, in_flight) == ~usable /\ ~in_flight

\* lines 141-151: the miss path is taken unless the probe returned; nothing
\* looks at the other callers
miss_decision(usable, in_flight) == ~usable

-----------------------------------------------------------------------------
(* app.py CacheMonitor shared by threads: `self.hits += 1` reads the
   attribute, adds one and writes the attribute back; no lock is held, so
   another thread may run between the read and the write *)

\* a thread before it records anything
NewThread ==
    [pc   |-> "idle",
     attr |-> "none",    \* the counter the statement under way is about
     reg  |-> 0,         \* the value it read
     n    |-> 0]         \* its calls so far

NoThreads == [p \in Callers |-> NewThread]

\* the counters a hit and a miss move, in the order of the code
record_sequence == [hit |-> <<"hits">>, miss |-> <<"misses", "api_calls">>]

load_attr(mon, attr) == mon[attr]

store_attr(mon, attr, v) == [mon EXCEPT ![attr] = v]

-----------------------------------------------------------------------------
(* kafka_integration.py SoccerAnalystKafkaManager: the registry of consumers.
   A consumer is known by the order of its creation; closes[c] counts the
   calls of KafkaConsumer.close on consumer c. *)

\* SoccerAnalystKafkaManager.__init__, and a client that holds no consumer yet
SoccerAnalystKafkaManager ==
    [consumers |-> <<>>,     \* self.consumers: topics_key -> consumer
     topics    |-> <<>>,     \* KafkaConsumer.topics of every consumer made
     closes    |-> <<>>,
     held      |-> {},       \* the consumers get_consumer handed to the client
     released  |-> {},       \* the consumers the client closed itself
     published |-> 0,
     op        |-> "none",
     arg       |-> <<>>,
     ret       |-> 0,
     exc       |-> "none",
     ops       |-> 0]

\* the order of Python's str comparison on the topic names in use
str_rank == [soccer_matches |-> 1, soccer_standings |-> 2]

str_le(a, b) == str_rank[a] <= str_rank[b]

RECURSIVE insert_sorted(_, _)
insert_sorted(s, x) ==
    IF s = <<>> THEN <<x>>
    ELSE IF str_le(x, Head(s)) THEN <<x>> \o s
    ELSE <<Head(s)>> \o insert_sorted(Tail(s), x)

RECURSIVE sorted(_)
sorted(s) == IF s = <<>> THEN <<>> ELSE insert_sorted(sorted(Tail(s)), Head(s))

\* sep.join(s), as the sequence of its pieces
RECURSIVE join(_, _)
join(sep, s) ==
    IF Len(s) <= 1 THEN s ELSE <<Head(s), sep>> \o join(sep, Tail(s))

\* line 153
topics_key_of(topics) == join(",", sorted(topics))

\* confluent_kafka's Consumer.close() on a consumer closed before either
\* returns or raises RuntimeError, depending on the library version
Consumer_close(closes) == IF closes = 0 THEN {"ok"} ELSE {"ok", "RuntimeError"}

\* lines 151-156
get_consumer(k, topics) ==
    LET topics_key == topics_key_of(topics)
        c == Len(k.topics) + 1
        made == topics_key \notin DOMAIN k.consumers
        consumers == IF made
                     THEN [x \in DOMAIN k.consumers \cup {topics_key} |->
                             IF x = topics_key THEN c ELSE k.consumers[x]]
                     ELSE k.consumers
    IN  [k EXCEPT !.consumers = consumers,
                  !.topics = IF made THEN Append(@, topics) ELSE @,
                  !.closes = IF made THEN Append(@, 0) ELSE @,
                  !.held = @ \cup {consumers[topics_key]},
                  !.op = "get_consumer", !.arg = topics,
                  !.ret = consumers[topics_key], !.exc = "none"]

\* lines 110-112
KafkaConsumer_close(k, c) ==
    {[k EXCEPT !.closes[c] = @ + 1, !.op = "close", !.arg = <<c>>, !.ret = 0,
               !.exc = IF o = "ok" THEN "none" ELSE o]
       : o \in Consumer_close(k.closes[c])}

\* lines 158-162: close() on every registered consumer, in the order of
\* insertion; an exception leaves the loop and skips the clear()
RECURSIVE close_each(_, _)
close_each(k, cs) ==
    IF cs = <<>>
    THEN {[k EXCEPT !.consumers = <<>>]}
    ELSE UNION {IF j.exc = "none" THEN close_each(j, Tail(cs)) ELSE {j}
                  : j \in KafkaConsumer_close(k, Head(cs))}

\* the registered consumers in the order of their creation
registered(k) ==
    SelectSeq([c \in 1..Len(k.topics) |-> c],
              LAMBDA c : \E x \in DOMAIN k.consumers : k.consumers[x] = c)

close_all_consumers(k) ==
    {[j EXCEPT !.op = "close_all_consumers", !.arg = <<>>]
       : j \in close_each([k EXCEPT !.exc = "none"], registered(k))}

\* lines 79-108: a message or None; every exception of poll, such as the
\* one a closed consumer raises, is caught and gives None
consume_messages(k, c) ==
    {[k EXCEPT !.op = "consume_messages", !.arg = <<c>>, !.ret = r, !.exc = "none"]
       : r \in IF k.closes[c] > 0 THEN {0} ELSE {0, 1}}

\* lines 119-125
publish_match_data(k) ==
    [k EXCEPT !.published = @ + 1, !.op = "publish_match_data", !.arg = <<>>,
              !.ret = 0, !.exc = "none"]

-----------------------------------------------------------------------------
(* The state machine of the cache *)

\* the clock at process start: shortly before midnight, so that the date
\* stamps of the ids change within a few steps
StartTime == 3 * SecondsPerDay - CACHE_CONFIG.standings.ttl

TickSteps == {1, CACHE_CONFIG.standings.ttl + 1}

NoCall ==
    [op |-> "none", arg |-> 0, t |-> 0, outcome |-> "none", val |-> PyNone,
     source |-> "none", q |-> NoQuery, fetched |-> PyNone, remote |-> 0,
     add |-> "none", pub |-> "none", exc |-> "none", trace |-> <<>>,
     faults |-> 0, mon0 |-> CacheMonitor, changed |-> FALSE, empty0 |-> TRUE]

\* what the persist directory can hold when the process starts: documents
\* written by earlier runs (PersistentClient reopens the collections)
Envelope(data, version, ts) ==
    PyDict([data |-> data, version |-> version, timestamp |-> isoformat(ts)])

InitAges == {100, CACHE_CONFIG.standings.ttl + 1}

InitVersions == {"1.0", "0.9"}

InitEplDocs ==
    {Doc(<<"standings", 0, strftime(StartTime - age)>>,
         [type |-> "standings",
          standings_data |-> json_dumps(Envelope(StandingsOld, v, StartTime - age))])
       : age \in InitAges, v \in InitVersions}
    \cup
    {Doc(<<"standings", 0, strftime(StartTime)>>, [type |-> "standings"]),
     Doc(<<"standings", 0, strftime(StartTime)>>,
         [type |-> "standings", standings_data |-> BadJson]),
     Doc(<<"standings", 0, strftime(StartTime)>>,
         [type |-> "standings",
          standings_data |-> json_dumps(PyDict([version |-> "1.0",
                                     timestamp |-> isoformat(StartTime - 100)]))]),
     Doc(<<"team", 64, strftime(StartTime)>>,
         [type |-> "team_data",
          team_data |-> json_dumps(TeamRow(64, "Liverpool FC", 3))])}

InitMatchDocs ==
    {Doc(<<"matches", 0, strftime(StartTime - age)>>,
         [type |-> "match_list",
          matches_data |-> json_dumps(Envelope(MatchDict("int", {1}), v,
                                               StartTime - age))])
       : age \in InitAges, v \in InitVersions}
    \cup
    {Doc(<<"match", 1, 0>>, [type |-> "match"]),
     Doc(<<"analysis", 1, strftime(StartTime)>>,
         [type |-> "match_analysis", analysis_data |-> json_dumps(PyStr(1))])}

\* one collection at most holds a document at start
InitStores ==
    {[c \in collection_names |-> IF c = "epl_teams" THEN epl ELSE {}]
       : epl \in {{}} \cup {{d} : d \in InitEplDocs}}
    \cup
    {[c \in collection_names |-> IF c = "match_reports" THEN mr ELSE {}]
       : mr \in {{d} : d \in InitMatchDocs}}

DbKinds == {"SoccerAnalystVectorDB", "DocumentStore"}

Init ==
    /\ now = StartTime
    /\ ticks = 0
    /\ db_kind \in DbKinds
    /\ store \in InitStores
    /\ monitor = CacheMonitor
    /\ calls = 0
    /\ faults = 0
    /\ last = NoCall
    /\ pfArgs = <<>>
    /\ pfRet = "none"
    /\ api = FootballDataAPI
    /\ callers = NoCallers
    /\ threads = NoThreads
    /\ prev = NoCall
    /\ kafka = SoccerAnalystKafkaManager

\* the effect of one run of a fetch operation
Record(op, arg, run) ==
    /\ calls' = calls + 1
    /\ faults' = faults + run.faults
    /\ store' = run.store
    /\ monitor' = run.monitor
    /\ last' = [op |-> op, arg |-> arg, t |-> now, outcome |-> run.outcome,
                val |-> run.val, source |-> run.source, q |-> run.q,
                fetched |-> run.fetched, remote |-> run.remote,
                add |-> run.add, pub |-> run.pub, exc |-> run.exc,
                trace |-> run.trace,
                faults |-> run.faults, mon0 |-> monitor,
                changed |-> run.store # store,
                empty0 |-> \A c \in collection_names : store[c] = {}]
    /\ UNCHANGED <<now, ticks, db_kind, pfArgs, pfRet, api, callers, threads, kafka>>

Finish(op, arg, run) == Record(op, arg, run) /\ UNCHANGED prev

FetchStandings ==
    /\ calls < MaxCalls
    /\ \E run \in fetch_and_store_standings(db_kind, store, monitor, now,
                                            MaxFaults - faults) :
          Finish("standings", 0, run)

FetchMatches ==
    /\ calls < MaxCalls
    /\ \E run \in fetch_and_store_matches(db_kind, store, monitor, now,
                                          MaxFaults - faults) :
          Finish("matches", 0, run)

FetchMatchAnalysis ==
    /\ calls < MaxCalls
    /\ \E match_id \in MatchIds :
          \E run \in fetch_and_store_match_analysis(db_kind, store, monitor, now,
                                                    match_id, MaxFaults - faults) :
              Finish("match_analysis", match_id, run)

FetchTeamData ==
    /\ calls < MaxCalls
    /\ \E team_name \in TeamNames :
          \E run \in fetch_and_store_team_data(db_kind, store, monitor, now,
                                               team_name, MaxFaults - faults) :
              Finish("team_data", IF team_name = "Liverpool" THEN 1 ELSE 2, run)

\* time passes between two calls
Tick ==
    /\ calls > 0
    /\ ticks < MaxTicks
    /\ \E d \in TickSteps : now' = now + d
    /\ ticks' = ticks + 1
    /\ UNCHANGED <<db_kind, store, monitor, calls, faults, last, pfArgs, pfRet, api,
                   callers, threads, kafka, prev>>

Next ==
    \/ FetchStandings
    \/ FetchMatches
    \/ FetchMatchAnalysis
    \/ FetchTeamData
    \/ Tick

Spec == Init /\ [][Next]_vars

-----------------------------------------------------------------------------
(* The same fetch operations called again and again while every service is
   healthy: what a call leaves in the store is what the next call finds *)

InitRefetch ==
    /\ now = StartTime
    /\ ticks = 0
    /\ db_kind \in DbKinds
    /\ store \in InitStores
    /\ monitor = CacheMonitor
    /\ calls = 0
    /\ faults = 0
    /\ last = NoCall
    /\ prev = NoCall
    /\ pfArgs = <<>>
    /\ pfRet = "none"
    /\ api = FootballDataAPI
    /\ callers = NoCallers
    /\ threads = NoThreads
    /\ kafka = SoccerAnalystKafkaManager

RefetchStandings ==
    /\ calls < MaxRepeat
    /\ \E run \in fetch_and_store_standings(db_kind, store, monitor, now, 0) :
          Record("standings", 0, run)
    /\ prev' = last

RefetchMatches ==
    /\ calls < MaxRepeat
    /\ \E run \in fetch_and_store_matches(db_kind, store, monitor, now, 0) :
          Record("matches", 0, run)
    /\ prev' = last

NextRefetch ==
    \/ RefetchStandings
    \/ RefetchMatches
    \/ Tick

SpecRefetch == InitRefetch /\ [][NextRefetch]_vars

-----------------------------------------------------------------------------
(* is_data_valid on its own: entries of every age and version *)

\* ages around the ttl, on the day of the check and on earlier days
ValidAges(data_type) ==
    {d * SecondsPerDay + a : d \in 0..MaxAgeDays,
                            a \in {0, 100, CACHE_CONFIG[data_type].ttl - 1,
                                   CACHE_CONFIG[data_type].ttl,
                                   CACHE_CONFIG[data_type].ttl + 1}}

\* the arguments of one call: an envelope written age seconds before t with
\* the given version tag
ValidArgs ==
    {[data_type |-> c, age |-> a, version |-> v, t |-> StartTime,
      data |-> Envelope(StandingsOld, v, StartTime - a)]
       : c \in Categories, a \in UNION {ValidAges(x) : x \in Categories},
         v \in InitVersions}

InitValid ==
    /\ pfArgs \in ValidArgs
    /\ pfRet = "none"
    /\ now = StartTime
    /\ ticks = 0
    /\ db_kind = "SoccerAnalystVectorDB"
    /\ store = [c \in collection_names |-> {}]
    /\ monitor = CacheMonitor
    /\ calls = 0
    /\ faults = 0
    /\ last = NoCall
    /\ api = FootballDataAPI
    /\ callers = NoCallers
    /\ threads = NoThreads
    /\ prev = NoCall
    /\ kafka = SoccerAnalystKafkaManager

\* one call of is_data_valid(data, data_type)
IsDataValid ==
    /\ pfRet = "none"
    /\ pfRet' = IF is_data_valid_raises(pfArgs.data, pfArgs.data_type) THEN "raise"
                ELSE IF is_data_valid(pfArgs.data, pfArgs.data_type, pfArgs.t)
                     THEN "True" ELSE "False"
    /\ UNCHANGED <<pfArgs, cacheVars>>

NextValid == IsDataValid

SpecValid == InitValid /\ [][NextValid]_vars

-----------------------------------------------------------------------------
(* Requests that name a category or a collection, known or not *)

\* a name that is neither a key of CACHE_CONFIG nor a collection
UnknownName == "fixtures"

\* entries is_data_valid can be handed: None, {}, an envelope without its
\* timestamp, one whose timestamp is no date, fresh and expired envelopes
ConfigData ==
    {PyNone, EmptyDict,
     PyDict([data |-> StandingsOld, version |-> "1.0"]),
     PyDict([data |-> StandingsOld, version |-> "1.0", timestamp |-> BadIso]),
     Envelope(StandingsOld, "1.0", StartTime - 100),
     Envelope(StandingsOld, "0.9", StartTime - 100),
     Envelope(StandingsOld, "1.0", StartTime - CACHE_CONFIG.standings.ttl - 1)}

ConfigArgs ==
    {[op |-> "is_data_valid", name |-> n, data |-> d]
       : n \in Categories \cup {UnknownName}, d \in ConfigData}
    \cup
    {[op |-> o, name |-> n, data |-> PyNone]
       : o \in {"query_collection", "add_documents"},
         n \in collection_names \cup {UnknownName}}

\* the request, and the store as it is when the request is made
InitConfig ==
    /\ pfArgs \in {[op |-> a.op, name |-> a.name, data |-> a.data, store |-> st]
                     : a \in ConfigArgs, st \in InitStores}
    /\ pfRet = "none"
    /\ now = StartTime
    /\ ticks = 0
    /\ db_kind = "SoccerAnalystVectorDB"
    /\ store = pfArgs.store
    /\ monitor = CacheMonitor
    /\ calls = 0
    /\ faults = 0
    /\ last = NoCall
    /\ api = FootballDataAPI
    /\ callers = NoCallers
    /\ threads = NoThreads
    /\ prev = NoCall
    /\ kafka = SoccerAnalystKafkaManager

\* is_data_valid(data, name)
ConfigIsDataValid ==
    /\ pfRet = "none" /\ pfArgs.op = "is_data_valid"
    /\ pfRet' = IF is_data_valid_raises(pfArgs.data, pfArgs.name) THEN "raise"
                ELSE IF is_data_valid(pfArgs.data, pfArgs.name, now)
                     THEN "True" ELSE "False"
    /\ UNCHANGED <<pfArgs, cacheVars>>

\* db.query_collection(collection_name=name, ...)
ConfigQuery ==
    /\ pfRet = "none" /\ pfArgs.op = "query_collection"
    /\ pfRet' = IF query_collection_raises(store, pfArgs.name) THEN "raise"
                ELSE "results"
    /\ UNCHANGED <<pfArgs, cacheVars>>

\* db.add_documents(collection_name=name, ...) of a document with a new id
ConfigAdd ==
    /\ pfRet = "none" /\ pfArgs.op = "add_documents"
    /\ LET a == add_documents(store, pfArgs.name,
                              Doc(<<"doc", 1, 0>>, [type |-> "note"]), "ok")
       IN  /\ pfRet' = IF a.raised THEN "raise" ELSE "added"
           /\ store' = a.store
    /\ UNCHANGED <<pfArgs, now, ticks, db_kind, monitor, calls, faults, last, api,
                   callers, threads, kafka, prev>>

NextConfig == ConfigIsDataValid \/ ConfigQuery \/ ConfigAdd

SpecConfig == InitConfig /\ [][NextConfig]_vars

-----------------------------------------------------------------------------
(* The state machine of the remote adapter *)

\* the operations of one FootballDataAPI instance that issue requests
DayRanges == {<<7, 7>>}

\* the match ids callers ask about: one the server lists within the
\* default range, one it does not list, and a text
MatchIdArgs ==
    {[k |-> "int", v |-> match_id_on(0)], [k |-> "int", v |-> 1],
     [k |-> "str", v |-> match_id_on(0)]}

ApiOps ==
    {[op |-> "get_standings", pc |-> "make_request",
      endpoint |-> "competitions/PL/standings", params |-> "none", chunks |-> 0,
      match_id |-> [k |-> "int", v |-> 0], days |-> <<0, 0>>],
     [op |-> "get_recent_manchester_united_matches", pc |-> "make_request",
      endpoint |-> "teams/66/matches", params |-> "dateFrom,dateTo", chunks |-> 0,
      match_id |-> [k |-> "int", v |-> 0], days |-> <<0, 0>>]}
    \cup
    {[op |-> "get_match_data", pc |-> "get_match_data",
      endpoint |-> "matches/id", params |-> "none", chunks |-> 0,
      match_id |-> m, days |-> <<0, 0>>] : m \in MatchIdArgs}
    \cup
    {[op |-> "get_valid_match_ids", pc |-> "get_valid_match_ids",
      endpoint |-> "matches", params |-> "dateFrom,dateTo,competitions,status",
      chunks |-> chunk_count(r[1], r[2]),
      match_id |-> [k |-> "int", v |-> 0], days |-> r] : r \in DayRanges}
    \cup
    {[op |-> "get_detailed_match_analysis", pc |-> "get_valid_match_ids",
      endpoint |-> "matches", params |-> "dateFrom,dateTo,competitions,status",
      chunks |-> chunk_count(7, 7),
      match_id |-> m, days |-> <<7, 7>>] : m \in MatchIdArgs}

InitApi ==
    /\ api = FootballDataAPI
    /\ callers = NoCallers
    /\ threads = NoThreads
    /\ prev = NoCall
    /\ kafka = SoccerAnalystKafkaManager
    /\ pfArgs = <<>>
    /\ pfRet = "none"
    /\ now = StartTime
    /\ ticks = 0
    /\ db_kind = "SoccerAnalystVectorDB"
    /\ store = [c \in collection_names |-> {}]
    /\ monitor = CacheMonitor
    /\ calls = 0
    /\ faults = 0
    /\ last = NoCall

\* a caller starts an operation of the adapter
ApiCall ==
    /\ api.pc = "idle"
    /\ api.ops < MaxCalls
    /\ \E o \in ApiOps :
          api' = [start_valid_match_ids(api, api.clock, o.days[1], o.days[2]) EXCEPT
                    !.pc = o.pc, !.op = o.op, !.endpoint = o.endpoint,
                    !.params = o.params, !.chunk = 1, !.chunks = o.chunks,
                    !.match_id = o.match_id,
                    !.attempts = <<>>, !.result = "none", !.ops = @ + 1]
    /\ UNCHANGED nonApiVars

\* time passes between two operations
ApiWait ==
    /\ api.pc = "idle"
    /\ api.ops > 0
    /\ api.waits < MaxTicks
    /\ \E d \in {1, min_request_interval} :
          api' = [api EXCEPT !.clock = @ + d, !.waits = @ + 1]
    /\ UNCHANGED nonApiVars

MakeRequest ==
    /\ api.pc = "make_request"
    /\ \E dur \in Durations, status \in Responses(api) :
          api' = make_request(api, dur, status)
    /\ UNCHANGED nonApiVars

GetMatchData ==
    /\ api.pc = "get_match_data"
    /\ \E dur \in Durations, status \in Responses(api) :
          api' = get_match_data(api, dur, status)
    /\ UNCHANGED nonApiVars

GetValidMatchIds ==
    /\ api.pc = "get_valid_match_ids"
    /\ \E dur \in Durations, status \in Responses(api) :
          api' = get_valid_match_ids(api, dur, status)
    /\ UNCHANGED nonApiVars

NextApi == ApiCall \/ ApiWait \/ MakeRequest \/ GetMatchData \/ GetValidMatchIds

SpecApi == InitApi /\ [][NextApi]_vars

\* the interpreter keeps running an operation it has started
SpecApiLive ==
    /\ SpecApi
    /\ WF_vars(MakeRequest) /\ WF_vars(GetMatchData) /\ WF_vars(GetValidMatchIds)

-----------------------------------------------------------------------------
(* The date range of get_valid_match_ids on its own.  datetime.now() is read
   twice (lines 165 and 166); the second reading is delta seconds after the
   first and may fall on the next day. *)

ChunkNows == {StartTime, 3 * SecondsPerDay - 1}

ChunkArgs ==
    {[days_back |-> b, days_forward |-> f, now |-> n, delta |-> d]
       : b \in 0..MaxDays, f \in 0..MaxDays, n \in ChunkNows, d \in {0, 1}}

InitChunks ==
    /\ pfArgs \in ChunkArgs
    /\ pfRet = "none"
    /\ now = StartTime
    /\ ticks = 0
    /\ db_kind = "SoccerAnalystVectorDB"
    /\ store = [c \in collection_names |-> {}]
    /\ monitor = CacheMonitor
    /\ calls = 0
    /\ faults = 0
    /\ last = NoCall
    /\ api = FootballDataAPI
    /\ callers = NoCallers
    /\ threads = NoThreads
    /\ prev = NoCall
    /\ kafka = SoccerAnalystKafkaManager

\* lines 165-166
ChunkStart == pfArgs.now - timedelta_days(pfArgs.days_back)

ChunkTarget == pfArgs.now + pfArgs.delta + timedelta_days(pfArgs.days_forward)

SplitRange ==
    /\ pfRet = "none"
    /\ pfRet' = date_chunks(ChunkStart, ChunkTarget)
    /\ UNCHANGED <<pfArgs, cacheVars>>

NextChunks == SplitRange

SpecChunks == InitChunks /\ [][NextChunks]_vars

-----------------------------------------------------------------------------
(* The state machine of two callers of fetch_and_store_standings.  A caller
   takes one step per call into the store, the remote source or the broker;
   every service is healthy. *)

InitConc ==
    /\ callers = NoCallers
    /\ threads = NoThreads
    /\ prev = NoCall
    /\ kafka = SoccerAnalystKafkaManager
    /\ now = StartTime
    /\ ticks = 0
    /\ db_kind \in DbKinds
    /\ store \in InitStores
    /\ monitor = CacheMonitor
    /\ calls = 0
    /\ faults = 0
    /\ last = NoCall
    /\ pfArgs = <<>>
    /\ pfRet = "none"
    /\ api = FootballDataAPI

concUnchanged == <<now, ticks, db_kind, calls, faults, last, pfArgs, pfRet, api,
                   threads, kafka, prev>>

\* lines 133-154: query_collection, the validity check and the counters
ConcProbe(p) ==
    /\ callers[p].pc = "start"
    /\ \E q \in query_collection(db_kind, store, "epl_teams", 0) :
          LET usable == /\ probe_valid(q, "standings_data", "standings", now)
                        /\ has(probe_data(q, "standings_data"), "data")
              in_flight == \E o \in Callers \ {p} :
                              callers[o].pc \notin {"start", "done"}
              c == [callers[p] EXCEPT !.usable = usable, !.overlapped = in_flight]
          IN  IF miss_decision(usable, in_flight)
              THEN /\ callers' = [callers EXCEPT
                                    ![p] = [c EXCEPT !.pc = "miss", !.missed = TRUE]]
                   /\ monitor' = record_api_call(record_miss(
                                    monitor_after_probe(q, "standings_data",
                                                        "standings", now, monitor)))
              ELSE /\ callers' = [callers EXCEPT
                                    ![p] = [c EXCEPT
                                              !.pc = "done",
                                              !.val = IF usable
                                                      THEN probe_data(q, "standings_data").d.data
                                                      ELSE PyNone]]
                   /\ monitor' = record_hit(monitor)
    /\ UNCHANGED <<store, concUnchanged>>

\* line 155: collect_and_process_data
ConcCollect(p) ==
    /\ callers[p].pc = "miss"
    /\ \E c \in collect_and_process_data(store, now, 0) :
          /\ store' = c.store
          /\ callers' = [callers EXCEPT ![p].pc = "collected",
                                        ![p].remote = c.get_standings]
    /\ UNCHANGED <<monitor, concUnchanged>>

\* line 156: get_standings
ConcRemote(p) ==
    /\ callers[p].pc = "collected"
    /\ \E standings \in PickResponse(StandingsResponses, 0) :
          callers' = [callers EXCEPT ![p].pc = "fetched", ![p].remote = @ + 1,
                                     ![p].fetched = standings]
    /\ UNCHANGED <<store, monitor, concUnchanged>>

\* lines 161-180: the envelope and add_documents
ConcAdd(p) ==
    /\ callers[p].pc = "fetched"
    /\ LET versioned_data == versioned(callers[p].fetched, "standings", now)
           doc == Doc(<<"standings", 0, strftime(now)>>,
                      [type |-> "standings",
                       standings_data |-> json_dumps(versioned_data)])
           a == add_documents(store, "epl_teams", doc, "ok")
       IN  /\ store' = a.store
           /\ callers' = [callers EXCEPT ![p].pc = "added", ![p].add = "ok"]
    /\ UNCHANGED <<monitor, concUnchanged>>

\* lines 182-186: publish_standings_update and the return
ConcPublish(p) ==
    /\ callers[p].pc = "added"
    /\ callers' = [callers EXCEPT ![p].pc = "done", ![p].val = callers[p].fetched]
    /\ UNCHANGED <<store, monitor, concUnchanged>>

NextConc ==
    \E p \in Callers :
        \/ ConcProbe(p)
        \/ ConcCollect(p)
        \/ ConcRemote(p)
        \/ ConcAdd(p)
        \/ ConcPublish(p)

SpecConc == InitConc /\ [][NextConc]_vars

-----------------------------------------------------------------------------
(* The state machine of threads that share the CacheMonitor of
   get_cache_monitor.  `calls` counts the record_hit and record_miss calls
   that have returned. *)

InitMon ==
    /\ threads = NoThreads
    /\ prev = NoCall
    /\ monitor = CacheMonitor
    /\ calls = 0
    /\ now = StartTime
    /\ ticks = 0
    /\ db_kind = "SoccerAnalystVectorDB"
    /\ store = [c \in collection_names |-> {}]
    /\ faults = 0
    /\ last = NoCall
    /\ pfArgs = <<>>
    /\ pfRet = "none"
    /\ api = FootballDataAPI
    /\ callers = NoCallers
    /\ kafka = SoccerAnalystKafkaManager

monUnchanged == <<now, ticks, db_kind, store, faults, last, pfArgs, pfRet, api,
                  callers, kafka, prev>>

\* a fetch reaches record_hit() (line 145) or record_miss() (line 153)
ThreadRecord(p) ==
    /\ threads[p].pc = "idle"
    /\ threads[p].n < MaxCalls
    /\ \E kind \in DOMAIN record_sequence :
          threads' = [threads EXCEPT ![p].pc = kind,
                                    ![p].attr = record_sequence[kind][1]]
    /\ UNCHANGED <<monitor, calls, monUnchanged>>

\* the read of `self.<attr> += 1`
ThreadLoad(p) ==
    /\ threads[p].pc \in DOMAIN record_sequence
    /\ threads' = [threads EXCEPT ![p].pc = "loaded_" \o @,
                                  ![p].reg = load_attr(monitor, threads[p].attr)]
    /\ UNCHANGED <<monitor, calls, monUnchanged>>

\* the write of `self.<attr> += 1`; a miss goes on to record_api_call()
ThreadStore(p) ==
    /\ threads[p].pc \in {"loaded_hit", "loaded_miss"}
    /\ monitor' = store_attr(monitor, threads[p].attr, threads[p].reg + 1)
    /\ IF threads[p].attr = "misses"
       THEN /\ threads' = [threads EXCEPT ![p].pc = "miss", ![p].attr = "api_calls"]
            /\ calls' = calls + 1
       ELSE /\ threads' = [threads EXCEPT ![p].pc = "idle", ![p].attr = "none",
                                         ![p].n = @ + 1]
            /\ calls' = IF threads[p].attr = "hits" THEN calls + 1 ELSE calls
    /\ UNCHANGED monUnchanged

NextMon ==
    \E p \in Callers :
        \/ ThreadRecord(p)
        \/ ThreadLoad(p)
        \/ ThreadStore(p)

SpecMon == InitMon /\ [][NextMon]_vars

-----------------------------------------------------------------------------
(* The state machine of a client of SoccerAnalystKafkaManager, as
   test_kafka.py and RealTimeDataProcessor use it.  The client closes a
   consumer it holds at most once. *)

TopicLists ==
    {<<TOPICS.matches>>, <<TOPICS.matches, TOPICS.standings>>,
     <<TOPICS.standings, TOPICS.matches>>, <<TOPICS.matches, TOPICS.matches>>}

InitKafka ==
    /\ kafka = SoccerAnalystKafkaManager
    /\ monitor = CacheMonitor
    /\ calls = 0
    /\ now = StartTime
    /\ ticks = 0
    /\ db_kind = "SoccerAnalystVectorDB"
    /\ store = [c \in collection_names |-> {}]
    /\ faults = 0
    /\ last = NoCall
    /\ pfArgs = <<>>
    /\ pfRet = "none"
    /\ api = FootballDataAPI
    /\ callers = NoCallers
    /\ threads = NoThreads
    /\ prev = NoCall

kafkaUnchanged == <<now, ticks, db_kind, store, monitor, calls, faults, last, pfArgs,
                    pfRet, api, callers, threads, prev>>

\* the client's count of operations
counted(k) == [k EXCEPT !.ops = @ + 1]

PublishMatchData ==
    /\ kafka.ops < MaxOps
    /\ kafka' = counted(publish_match_data(kafka))
    /\ UNCHANGED kafkaUnchanged

GetConsumer ==
    /\ kafka.ops < MaxOps
    /\ \E topics \in TopicLists : kafka' = counted(get_consumer(kafka, topics))
    /\ UNCHANGED kafkaUnchanged

ConsumeMessages ==
    /\ kafka.ops < MaxOps
    /\ \E c \in kafka.held : \E k \in consume_messages(kafka, c) : kafka' = counted(k)
    /\ UNCHANGED kafkaUnchanged

ConsumerClose ==
    /\ kafka.ops < MaxOps
    /\ \E c \in kafka.held \ kafka.released :
          \E k \in KafkaConsumer_close(kafka, c) :
              kafka' = counted([k EXCEPT !.released = @ \cup {c}])
    /\ UNCHANGED kafkaUnchanged

CloseAllConsumers ==
    /\ kafka.ops < MaxOps
    /\ \E k \in close_all_consumers(kafka) : kafka' = counted(k)
    /\ UNCHANGED kafkaUnchanged

NextKafka ==
    \/ PublishMatchData
    \/ GetConsumer
    \/ ConsumeMessages
    \/ ConsumerClose
    \/ CloseAllConsumers

SpecKafka == InitKafka /\ [][NextKafka]_vars

-----------------------------------------------------------------------------
(* Properties *)

\* the metadata field, the category and the collection of a fetch operation
OpField(op) ==
    CASE op = "standings"      -> "standings_data"
      [] op = "matches"        -> "matches_data"
      [] op = "match_analysis" -> "analysis_data"
      [] OTHER                 -> "team_data"

OpCategory(op) ==
    CASE op = "standings"      -> "standings"
      [] op = "matches"        -> "matches"
      [] op = "match_analysis" -> "analysis"
      [] OTHER                 -> "team_data"

OpCollection(op) ==
    IF op \in {"matches", "match_analysis"} THEN "match_reports" ELSE "epl_teams"

\* the envelope invariant of the data model: {data, version, timestamp},
\* younger than the ttl of the category and tagged with its version
EnvelopeValidAt(e, category, t) ==
    /\ e.k = "dict"
    /\ {"data", "version", "timestamp"} \subseteq DOMAIN e.d
    /\ e.d.timestamp.ok
    /\ t - fromisoformat(e.d.timestamp) < CACHE_CONFIG[category].ttl
    /\ e.d.version = CACHE_CONFIG[category].version

\* an envelope of the category's version that is older than its ttl
EnvelopeExpiredAt(e, category, t) ==
    /\ e.k = "dict"
    /\ {"data", "version", "timestamp"} \subseteq DOMAIN e.d
    /\ e.d.timestamp.ok
    /\ t - fromisoformat(e.d.timestamp) > CACHE_CONFIG[category].ttl
    /\ e.d.version = CACHE_CONFIG[category].version

\* the query of the last call returned a document
LastGotDocument == last.op # "none" /\ last.q.docs # <<>>

\* what the category's metadata field of that document denotes
LastStoredText == metadata_get(last.q, OpField(last.op))

LastStoredValue == json_loads(LastStoredText)

\* the nearest document of the last call held a valid envelope
LastNearestValid ==
    /\ LastGotDocument
    /\ ~json_loads_raises(LastStoredText)
    /\ EnvelopeValidAt(LastStoredValue, OpCategory(last.op), last.t)

\* the nearest document of the last call held an expired envelope
LastNearestExpired ==
    /\ LastGotDocument
    /\ ~json_loads_raises(LastStoredText)
    /\ EnvelopeExpiredAt(LastStoredValue, OpCategory(last.op), last.t)

\* the counters moved by exactly (dh, dm, da) during the last call
CountersMoved(dh, dm, da) ==
    /\ monitor.hits = last.mon0.hits + dh
    /\ monitor.misses = last.mon0.misses + dm
    /\ monitor.api_calls = last.mon0.api_calls + da

C2_ValidityIff ==
    pfRet # "none" =>
        (pfRet = "True" <=>
            /\ pfArgs.age < CACHE_CONFIG[pfArgs.data_type].ttl
            /\ pfArgs.version = CACHE_CONFIG[pfArgs.data_type].version)

\* C2, witness: an entry aged ttl - 1 with the expected version was judged
\* valid.
C2_Witness ==
    /\ pfRet = "True"
    /\ pfArgs.age = CACHE_CONFIG[pfArgs.data_type].ttl - 1
    /\ pfArgs.version = CACHE_CONFIG[pfArgs.data_type].version

\* C3: with SoccerAnalystVectorDB holding a valid envelope as the nearest
\* document, standings and matches return the envelope's data, call the
\* remote source zero times and count one hit and nothing else.
C3_HitPath ==
    (/\ last.op \in {"standings", "matches"}
     /\ db_kind = "SoccerAnalystVectorDB"
     /\ LastNearestValid)
        => /\ last.outcome = "return"
           /\ last.val = LastStoredValue.d.data
           /\ last.remote = 0
           /\ CountersMoved(1, 0, 0)

\* C4: when the operation's own add_documents raises, the freshly fetched
\* payload is still returned.
C4_PersistFailureReturnsPayload ==
    (last.op \in {"standings", "matches", "match_analysis"} /\ last.add = "error")
        => /\ last.outcome = "return"
           /\ last.val # PyNone
           /\ last.val = last.fetched

\* C5: on an empty store and with every service healthy, one call of
\* standings or matches invokes the category's remote retrieval exactly
\* once and counts one miss and one API call.
C5_MissFetchesOnce ==
    (last.op \in {"standings", "matches"} /\ last.empty0 /\ last.faults = 0)
        => /\ last.remote = 1
           /\ CountersMoved(0, 1, 1)

\* C6: when the nearest entry is expired and every service is healthy, the
\* call refetches and the store then holds an envelope of the category
\* whose timestamp is the time of the call.
C6_StaleRefreshStoresNew ==
    (/\ last.op \in {"standings", "matches"}
     /\ LastNearestExpired
     /\ last.faults = 0
     /\ truthy(last.fetched))
        => /\ last.remote >= 1
           /\ \E e \in store[OpCollection(last.op)] :
                 /\ OpField(last.op) \in DOMAIN e.metadata
                 /\ ~json_loads_raises(e.metadata[OpField(last.op)])
                 /\ LET v == json_loads(e.metadata[OpField(last.op)])
                    IN  /\ has(v, "timestamp")
                        /\ v.d.timestamp = isoformat(last.t)

\* C7: when the remote retrieval returned None or an empty result, the
\* operation returns None, leaves the store as it was and raises nothing.
C7_RemoteFailureReturnsNone ==
    (last.op # "none" /\ last.remote > 0 /\ ~truthy(last.fetched))
        => /\ last.outcome = "return"
           /\ last.val = PyNone
           /\ ~last.changed

\* C8: no fetch operation raises an exception that came from the store.
C8_NoStoreException == last.exc # "store"

\* C9: a failure of the notifier (building the Kafka manager, publishing)
\* never reaches the caller of standings or team data, and the fetched
\* payload is still returned.
C9_NotifySwallowed ==
    last.op \in {"standings", "team_data"}
        => /\ last.exc \notin {"kafka_init", "publish"}
           /\ last.pub = "error" => (last.outcome = "return" /\ truthy(last.val))

\* C10: every call of a fetch operation, also with every service healthy,
\* counts exactly one hit or exactly one miss.
C10_ExactlyOneOfHitMiss ==
    (last.op # "none" /\ last.faults = 0) =>
        \/ monitor.hits = last.mon0.hits + 1 /\ monitor.misses = last.mon0.misses
        \/ monitor.hits = last.mon0.hits /\ monitor.misses = last.mon0.misses + 1

\* the nearest document of the last call held an invalid entry: its
\* metadata lacks the field of the category, or the field is not JSON, or
\* it is an envelope younger than the ttl whose version is not the
\* category's
LastNearestInvalid ==
    /\ LastGotDocument
    /\ \/ OpField(last.op) \notin DOMAIN last.q.docs[1].metadata
       \/ json_loads_raises(LastStoredText)
       \/ /\ LastStoredValue.k = "dict"
          /\ {"data", "version", "timestamp"} \subseteq DOMAIN LastStoredValue.d
          /\ LastStoredValue.d.timestamp.ok
          /\ last.t - fromisoformat(LastStoredValue.d.timestamp)
                < CACHE_CONFIG[OpCategory(last.op)].ttl
          /\ LastStoredValue.d.version # CACHE_CONFIG[OpCategory(last.op)].version

C12_ApiCallsEqualMisses ==
    /\ monitor.api_calls = monitor.misses
    /\ last.source = "store" => monitor.api_calls = last.mon0.api_calls

\* C12, witness: a miss was counted and the remote fetch that followed it
\* raised.
C12_Witness ==
    /\ monitor.misses = last.mon0.misses + 1
    /\ last.outcome = "raise"
    /\ last.exc = "api"

\* the positions of the last call's trace at which something was published
PublishTopics == {TOPICS[k] : k \in DOMAIN TOPICS}

LastPublishes == {i \in 1..Len(last.trace) : last.trace[i] \in PublishTopics}

OpTopic(op) ==
    CASE op = "standings"      -> TOPICS.standings
      [] op = "matches"        -> TOPICS.matches
      [] op = "match_analysis" -> TOPICS.match_analysis
      [] OTHER                 -> TOPICS.team_stats

\* C18: a miss-fill that fetched data and stored it, with every service
\* healthy, attempts exactly one publish to the topic of its category.
C18_FillPublishesOnce ==
    (last.op # "none" /\ last.faults = 0 /\ last.remote >= 1
       /\ truthy(last.fetched) /\ last.add = "ok")
        => Cardinality({i \in LastPublishes : last.trace[i] = OpTopic(last.op)}) = 1

C16_UnknownNameRaises ==
    (pfRet # "none" /\ pfArgs.name = UnknownName)
        => /\ pfRet = "raise"
           /\ store = pfArgs.store

\* C13: between any two consecutive outbound requests of the adapter at
\* least min_request_interval seconds elapse.
C13_MinSpacing ==
    api.prev_sent >= 0 => api.last_sent - api.prev_sent >= min_request_interval

\* the operations that go through _make_request
MakeRequestOps == {"get_standings", "get_recent_manchester_united_matches"}

LastAttempt == api.attempts[Len(api.attempts)]

\* C14: in _make_request every request but the last of a call was answered
\* 429 and is followed, min_request_interval seconds after its response, by
\* one request with the same endpoint and params; the call ends on the
\* first other answer, with the body for 200 and None for any other status.
C14_RetryOn429Only ==
    (api.op \in MakeRequestOps /\ api.attempts # <<>>) =>
        /\ \A i \in 1..(Len(api.attempts) - 1) :
              /\ api.attempts[i].status = "429"
              /\ api.attempts[i + 1].endpoint = api.attempts[i].endpoint
              /\ api.attempts[i + 1].params = api.attempts[i].params
              /\ api.attempts[i + 1].at = api.attempts[i].done + min_request_interval
        /\ api.pc = "make_request" =>
              /\ LastAttempt.status = "429"
              /\ api.clock = LastAttempt.done + min_request_interval
        /\ api.pc = "idle" =>
              /\ LastAttempt.status # "429"
              /\ LastAttempt.status = "200" => api.result = "body"
              /\ LastAttempt.status \in {"403", "500"} => api.result = "None"

\* C14, witness: a request with query parameters was answered 429, retried
\* and then answered 200.
C14_Witness ==
    /\ api.op \in MakeRequestOps
    /\ api.pc = "idle"
    /\ Len(api.attempts) = 2
    /\ api.attempts[1].status = "429"
    /\ api.attempts[1].params # "none"
    /\ api.result = "body"

\* C15: a call of _make_request ends once the server stops answering 429,
\* and it never ends on a 429 answer however many came before.
C15_RetryUntilNon429 ==
    /\ (api.pc = "make_request") ~> (api.pc = "idle")
    /\ [][(api.pc = "make_request" /\ api'.pc = "idle")
            => api'.attempts[Len(api'.attempts)].status # "429"]_vars

\* C15, witness: the call went on through every 429 the server gave and
\* returned on the answer after them.
C15_Witness ==
    /\ api.op \in MakeRequestOps
    /\ api.pc = "idle"
    /\ Len(api.attempts) = Max429 + 1
    /\ \A i \in 1..Max429 : api.attempts[i].status = "429"
    /\ api.result \in {"body", "None"}

C21_NoLostIncrement ==
    (\A p \in Callers : threads[p].pc = "idle")
        => monitor.hits + monitor.misses = calls

\* C22: no consumer is closed more than once, no operation of the manager
\* or of a consumer ends in an error, and after close_all_consumers the
\* registry is empty.
C22_ClosedOnce ==
    /\ \A c \in 1..Len(kafka.closes) : kafka.closes[c] <= 1
    /\ kafka.exc = "none"
    /\ kafka.op = "close_all_consumers" => kafka.consumers = <<>>

\* the set of topics of a list of topics
TopicSet(topics) == {topics[i] : i \in 1..Len(topics)}

\* C29: get_consumer is a get-or-create keyed by the set of topics: the
\* consumer it returns is registered and subscribes to the topics asked for,
\* and the registry holds at most one consumer per distinct set of topics.
C29_OnePerTopicSet ==
    /\ kafka.op = "get_consumer"
          => /\ \E x \in DOMAIN kafka.consumers : kafka.consumers[x] = kafka.ret
             /\ TopicSet(kafka.topics[kafka.ret]) = TopicSet(kafka.arg)
    /\ \A x, y \in DOMAIN kafka.consumers :
          TopicSet(kafka.topics[kafka.consumers[x]])
            = TopicSet(kafka.topics[kafka.consumers[y]]) => x = y

\* the id under which a fill at time t writes its envelope
OpId(op, t) == <<op, 0, strftime(t)>>

\* the last call follows, within the ttl, a call of the same operation that
\* missed, wrote its envelope and returned the payload, and its query
\* returned the entry that call wrote
LastReadsWhatPrevWrote ==
    /\ calls >= 2
    /\ prev.op = last.op
    /\ prev.source = "remote" /\ prev.add = "ok" /\ truthy(prev.val)
    /\ last.t - prev.t < CACHE_CONFIG[OpCategory(last.op)].ttl
    /\ last.q.docs # <<>>
    /\ last.q.docs[1].id = OpId(last.op, prev.t)
    /\ OpField(last.op) \in DOMAIN last.q.docs[1].metadata
    /\ last.q.docs[1].metadata[OpField(last.op)]
         = json_dumps(versioned(prev.val, OpCategory(last.op), prev.t))

\* C23: the cache serves what it filled: with SoccerAnalystVectorDB, a call
\* that follows a miss-fill of the same key within the ttl and whose query
\* returns the entry just written is a hit that makes no remote call.
C23_SecondCallHits ==
    (db_kind = "SoccerAnalystVectorDB" /\ LastReadsWhatPrevWrote)
        => /\ last.source = "store"
           /\ last.remote = 0
           /\ monitor.hits = last.mon0.hits + 1

LastFetchedRows ==
    IF has(last.fetched, "standings")
    THEN {last.fetched.d.standings[i] : i \in 1..Len(last.fetched.d.standings)}
    ELSE {}

\* C25: publishing leaves the payload unchanged: the value a miss returns
\* after a publish is what was fetched (the table for standings, one row of
\* the table for team data), and the entry stored for it holds the same
\* value, with no field added or overwritten by produce_message.
C25_PublishKeepsPayload ==
    (last.source = "remote" /\ last.pub = "ok")
        => /\ last.op = "standings" => last.val = last.fetched
           /\ last.op = "team_data"
                 => /\ last.val \in LastFetchedRows
                    /\ \E e \in store["epl_teams"] :
                          /\ "team_data" \in DOMAIN e.metadata
                          /\ json_loads(e.metadata.team_data) = last.val

\* the days a chunk asks for
ChunkDays(c) == c.dateFrom..c.dateTo

\* C26: get_valid_match_ids splits the days from today - days_back to
\* today + days_forward into consecutive chunks of at most 10 days each:
\* the first starts on the first day, each next one starts the day after
\* the one before ends, no day lies in two chunks and every day of the
\* range lies in exactly one.  Today is the day of the first reading of the
\* clock; the last chunk ends on the last day of the range, or, when the
\* second reading fell on the next day, at most one day later.
C26_ChunksPartition ==
    pfRet # "none" =>
        LET n == Len(pfRet)
            first_day == strftime(pfArgs.now) - pfArgs.days_back
            last_day == strftime(pfArgs.now) + pfArgs.days_forward
        IN  /\ n >= 1
            /\ pfRet[1].dateFrom = first_day
            /\ pfRet[n].dateTo \in last_day..strftime(ChunkTarget)
            /\ strftime(pfArgs.now + pfArgs.delta) = strftime(pfArgs.now)
                  => pfRet[n].dateTo = last_day
            /\ \A i \in 1..n :
                  /\ pfRet[i].dateFrom <= pfRet[i].dateTo
                  /\ Cardinality(ChunkDays(pfRet[i])) <= 10
            /\ \A i \in 1..(n - 1) : pfRet[i + 1].dateFrom = pfRet[i].dateTo + 1
            /\ \A d \in first_day..last_day :
                  Cardinality({i \in 1..n : d \in ChunkDays(pfRet[i])}) = 1

\* C26, witness: a range of more than twenty days was split into three
\* chunks, the last one shorter than ten days.
C26_Witness ==
    /\ pfRet # "none"
    /\ pfArgs.days_back + pfArgs.days_forward > 20
    /\ Len(pfRet) = 3
    /\ Cardinality(ChunkDays(pfRet[3])) < 10

\* a pass of the loop of get_valid_match_ids: one more request is on record
ScanPass ==
    /\ api.pc = "get_valid_match_ids"
    /\ Len(api'.attempts) = Len(api.attempts) + 1

\* how the request of the pass just made ended
ScanPassStatus == api'.attempts[Len(api'.attempts)].status

C28_KeepsGathered ==
    (api.op = "get_valid_match_ids" /\ api.pc = "idle") =>
        \A i \in 1..Len(api.attempts) :
            api.attempts[i].status = "200"
                => response_match_ids(api.attempts[i].dates) \subseteq api.returned

\* C30: get_detailed_match_analysis with an id that is not a key of what
\* get_valid_match_ids returned ends with None and without a request for the
\* match, and get_match_data with an id that is no int makes no request at
\* all and returns None.
C30_NoRequestForBadId ==
    /\ (/\ api.op = "get_detailed_match_analysis"
        /\ api.pc # "get_valid_match_ids"
        /\ ~(api.match_id.k = "int" /\ api.match_id.v \in api.returned))
          => /\ api.pc = "idle"
             /\ api.result = "None"
             /\ \A i \in 1..Len(api.attempts) : api.attempts[i].endpoint # "matches/id"
    /\ (api.op = "get_match_data" /\ api.match_id.k # "int")
          => /\ api.attempts = <<>>
             /\ api.pc = "idle" => api.result = "None"

\* C30, witness: the scan returned some ids, the id asked for is an int that
\* is not among them, and the analysis ended with None.
C30_Witness ==
    /\ api.op = "get_detailed_match_analysis"
    /\ api.pc = "idle"
    /\ api.returned # {}
    /\ api.match_id.k = "int"
    /\ api.match_id.v \notin api.returned
    /\ api.result = "None"
    /\ Len(api.attempts) >= 2

====
